---- MODULE Spec2Model ----
(***************************************************************************)
(* A model of app/groq_stream.py: the ChatIA_Universal facade.             *)
(*                                                                         *)
(*   - the connectivity state (client, initialization_error) and the steps *)
(*     of __init__ / _initialize_groq / reinitialize, with readers         *)
(*     (is_available, get_status) interleaved at every step;               *)
(*   - the chat CRUD handlers crear_chat / eliminar_chat / renombrar_chat  *)
(*     over a transactional store (committed rows and the session's view); *)
(*   - the pure builders _calculate_age, _get_archivos_data and            *)
(*     _build_system_prompt.                                               *)
(*                                                                         *)
(* Python values are tagged records: None, Missing (an attribute the       *)
(* object does not have), Str(runs).  A string is kept run-length encoded  *)
(* (a sequence of runs [c, n], adjacent runs of different characters), so  *)
(* that the lengths the code compares against (10, 200, 2000) stay the     *)
(* code's own numbers.                                                     *)
(***************************************************************************)
EXTENDS Integers, Sequences, FiniteSets, TLC

VARIABLES
    \* ---- facade connectivity state
    env_key,               \* os.environ['GROQ_API_KEY'] (None when unset)
    client,                \* self.client: None or a Groq instance
    initialization_error,  \* self.initialization_error
    pc,                    \* position of the thread running __init__/reinitialize
    api_key,               \* the local api_key of _initialize_groq
    ret,                   \* the last value returned by _initialize_groq
    constructed,           \* __init__ has returned (the global instance is published)
    nClients,              \* Groq instances constructed so far
    validated,             \* ids of the instances whose validation call returned a choice
    oldClient,             \* self.client when the running reinitialize was called
    obs,                   \* what the last read of self.client by a reader saw
    rpc,                   \* position of the thread running get_status
    status,                \* the dict get_status is building / has returned
    \* ---- chat store
    db,                    \* the committed rows: [chats, mensajes]
    sess,                  \* the session's view of the rows (its open transaction)
    nextId,                \* the next primary key of ChatIA
    last,                  \* the last CRUD call: its arguments, injected failure, result
    \* ---- prompt building
    usuario,               \* the Usuario passed in
    hoy,                   \* date.today()
    archivos,              \* the rows of the ArchivoMateria table
    fallos,                \* the queries of the builders that raise
    env,                   \* os.environ: the prompt's five variables
    edad,                  \* the result of _calculate_age
    prompt                 \* the result of _build_system_prompt

facadeVars == <<env_key, client, initialization_error, pc, api_key, ret, constructed,
                nClients, validated, oldClient, obs, rpc, status>>
chatVars == <<db, sess, nextId, last>>
promptVars == <<usuario, hoy, archivos, fallos, env, edad, prompt>>
vars == <<facadeVars, chatVars, promptVars>>

-----------------------------------------------------------------------------
(* Python values *)

None == [t |-> "None"]
Missing == [t |-> "Missing"]
Str(runs) == [t |-> "str", s |-> runs]
Run(ch, k) == [c |-> ch, n |-> k]

\* The characters str.strip() removes.
Whitespace == {" "}

RECURSIVE SLen(_)
SLen(s) == IF s = <<>> THEN 0 ELSE s[1].n + SLen(Tail(s))

\* s[:k]
RECURSIVE STake(_, _)
STake(s, k) ==
    IF k <= 0 \/ s = <<>> THEN <<>>
    ELSE IF s[1].n <= k THEN <<s[1]>> \o STake(Tail(s), k - s[1].n)
    ELSE <<Run(s[1].c, k)>>

RECURSIVE SLStrip(_)
SLStrip(s) == IF s # <<>> /\ s[1].c \in Whitespace THEN SLStrip(Tail(s)) ELSE s

RECURSIVE SRStrip(_)
SRStrip(s) ==
    IF s # <<>> /\ s[Len(s)].c \in Whitespace THEN SRStrip(SubSeq(s, 1, Len(s) - 1)) ELSE s

\* s.strip()
SStrip(s) == SRStrip(SLStrip(s))

\* s + t
SCat(s, t) ==
    IF s = <<>> THEN t
    ELSE IF t = <<>> THEN s
    ELSE IF s[Len(s)].c = t[1].c
         THEN SubSeq(s, 1, Len(s) - 1) \o <<Run(t[1].c, s[Len(s)].n + t[1].n)>> \o Tail(t)
         ELSE s \o t

\* bool(v) of an optional string
Truthy(v) == v.t = "str" /\ v.s # <<>>

-----------------------------------------------------------------------------
(* The facade: __init__, _initialize_groq, reinitialize, is_available,      *)
(* get_status                                                               *)

MinKeyLen == 10
MaxClients == 2

\* The values GROQ_API_KEY takes: unset, empty, blank, 12 characters of which 9
\* remain once stripped, well-formed with padding.
Keys ==
    { None,
      Str(<<>>),
      Str(<<Run(" ", 3)>>),
      Str(<<Run(" ", 1), Run("k", 9), Run(" ", 2)>>),
      Str(<<Run(" ", 2), Run("k", 10), Run(" ", 1)>>) }

\* A fixed piece of text, kept as one unit.
Lit(text) == Str(<<Run(text, 1)>>)

ErrNoKey == Lit("GROQ_API_KEY no encontrada en variables de entorno")
ErrBadKey == Lit("GROQ_API_KEY parece invalida")
ErrExc == Lit("Error inicializando Groq")

Groq(i) == [t |-> "Groq", id |-> i]

\* is_available(): self.client is not None
IsAvailable == client # None

NoObs == [val |-> None, old |-> None, inflight |-> FALSE, validated |-> FALSE]
\* The dict get_status() builds; quiet records that no initialization has run
\* since the call began.
NoStatus == [available |-> FALSE, client_initialized |-> FALSE,
             api_key_present |-> FALSE, initialization_error |-> None,
             quiet |-> FALSE]

\* A reader's read of self.client, with what the facade was doing at that moment.
Observe ==
    obs' = [val |-> client,
            old |-> oldClient,
            inflight |-> constructed /\ pc # "idle",
            validated |-> client # None /\ client.id \in validated]

Return(v) ==
    /\ ret' = v
    /\ pc' = "idle"
    /\ constructed' = TRUE

\* reinitialize() without its line 103
ReinitKeepClientMut ==
    /\ UNCHANGED <<chatVars, promptVars>>
    /\ pc = "idle" /\ constructed
    /\ nClients < MaxClients
    /\ oldClient' = client
    /\ pc' = "r104"
    /\ status' = [status EXCEPT !.quiet = FALSE]
    /\ UNCHANGED <<env_key, client, initialization_error, api_key, ret, constructed,
                   nClients, validated, obs, rpc>>

\* reinitialize(), line 103: self.client = None
ReinitClearClient ==
    /\ UNCHANGED <<chatVars, promptVars>>
    /\ pc = "idle" /\ constructed
    /\ nClients < MaxClients
    /\ oldClient' = client
    /\ client' = None
    /\ pc' = "r104"
    /\ status' = [status EXCEPT !.quiet = FALSE]
    /\ UNCHANGED <<env_key, initialization_error, api_key, ret, constructed, nClients,
                   validated, obs, rpc>>

\* reinitialize(), lines 104-105: self.initialization_error = None, then the call
ReinitClearError ==
    /\ UNCHANGED <<chatVars, promptVars>>
    /\ pc = "r104"
    /\ initialization_error' = None
    /\ pc' = "i23"
    /\ UNCHANGED <<env_key, client, api_key, ret, constructed, nClients, validated,
                   oldClient, obs, rpc, status>>

\* _initialize_groq, line 23: api_key = os.getenv('GROQ_API_KEY')
InitReadKey ==
    /\ UNCHANGED <<chatVars, promptVars>>
    /\ pc = "i23"
    /\ api_key' = env_key
    /\ pc' = "i24"
    /\ UNCHANGED <<env_key, client, initialization_error, ret, constructed, nClients,
                   validated, oldClient, obs, rpc, status>>

\* _initialize_groq, lines 24-36: the two early returns, else strip and go on
InitCheckKey ==
    /\ UNCHANGED <<chatVars, promptVars>>
    /\ pc = "i24"
    /\ IF ~Truthy(api_key)
       THEN /\ initialization_error' = ErrNoKey
            /\ Return(FALSE)
            /\ UNCHANGED api_key
       ELSE IF SLen(SStrip(api_key.s)) < MinKeyLen
       THEN /\ initialization_error' = ErrBadKey
            /\ Return(FALSE)
            /\ api_key' = Str(SStrip(api_key.s))
       ELSE /\ api_key' = Str(SStrip(api_key.s))
            /\ pc' = "i40"
            /\ UNCHANGED <<initialization_error, ret, constructed>>
    /\ UNCHANGED <<env_key, client, nClients, validated, oldClient, obs, rpc, status>>

\* _initialize_groq, line 40: self.client = Groq(api_key=api_key), which may raise
InitCreateClient ==
    /\ UNCHANGED <<chatVars, promptVars>>
    /\ pc = "i40"
    /\ \E raises \in BOOLEAN :
          IF raises
          THEN /\ pc' = "e61"
               /\ UNCHANGED <<client, nClients>>
          ELSE /\ nClients' = nClients + 1
               /\ client' = Groq(nClients + 1)
               /\ pc' = "i44"
    /\ UNCHANGED <<env_key, initialization_error, api_key, ret, constructed, validated,
                   oldClient, obs, rpc, status>>

\* What the validation call can do: return a completion with a choice, return an
\* empty completion (line 52 raises), or raise (transport, auth, timeout).
Outcomes == {"choice", "empty", "raise"}

\* _initialize_groq, lines 44-52: the validation call and the check of its result
InitValidate ==
    /\ UNCHANGED <<chatVars, promptVars>>
    /\ pc = "i44"
    /\ \E o \in Outcomes :
          IF o = "choice"
          THEN /\ validated' = validated \cup {client.id}
               /\ pc' = "i55"
          ELSE /\ pc' = "e61"
               /\ UNCHANGED validated
    /\ UNCHANGED <<env_key, client, initialization_error, api_key, ret, constructed,
                   nClients, oldClient, obs, rpc, status>>

\* _initialize_groq, lines 55-56: self.initialization_error = None; return True
InitSuccess ==
    /\ UNCHANGED <<chatVars, promptVars>>
    /\ pc = "i55"
    /\ initialization_error' = None
    /\ Return(TRUE)
    /\ UNCHANGED <<env_key, client, api_key, nClients, validated, oldClient, obs, rpc,
                   status>>

\* the except clause without its line 61
ExceptKeepClientMut ==
    /\ UNCHANGED <<chatVars, promptVars>>
    /\ pc = "e61"
    /\ pc' = "e62"
    /\ UNCHANGED <<env_key, client, initialization_error, api_key, ret, constructed,
                   nClients, validated, oldClient, obs, rpc, status>>

\* _initialize_groq, line 61: self.client = None
ExceptClearClient ==
    /\ UNCHANGED <<chatVars, promptVars>>
    /\ pc = "e61"
    /\ client' = None
    /\ pc' = "e62"
    /\ UNCHANGED <<env_key, initialization_error, api_key, ret, constructed, nClients,
                   validated, oldClient, obs, rpc, status>>

\* _initialize_groq, lines 62-63: self.initialization_error = error_msg; return False
ExceptSetError ==
    /\ UNCHANGED <<chatVars, promptVars>>
    /\ pc = "e62"
    /\ initialization_error' = ErrExc
    /\ Return(FALSE)
    /\ UNCHANGED <<env_key, client, api_key, nClients, validated, oldClient, obs, rpc,
                   status>>

\* The process configuration changes (another part of the process, or the
\* operator, sets or unsets GROQ_API_KEY).
SetEnvKey ==
    /\ UNCHANGED <<chatVars, promptVars>>
    /\ \E k \in Keys : k # env_key /\ env_key' = k
    /\ UNCHANGED <<client, initialization_error, pc, api_key, ret, constructed, nClients,
                   validated, oldClient, obs, rpc, status>>

\* A request thread calls is_available(), or uses self.client, once the instance
\* is published.
ReadIsAvailable ==
    /\ UNCHANGED <<chatVars, promptVars>>
    /\ constructed /\ rpc = "idle"
    /\ Observe
    /\ UNCHANGED <<env_key, client, initialization_error, pc, api_key, ret, constructed,
                   nClients, validated, oldClient, rpc, status>>

\* get_status(), line 94: 'available': self.is_available()
StatusAvailable ==
    /\ UNCHANGED <<chatVars, promptVars>>
    /\ constructed /\ rpc = "idle"
    /\ Observe
    /\ status' = [NoStatus EXCEPT !.available = IsAvailable, !.quiet = (pc = "idle")]
    /\ rpc' = "s95"
    /\ UNCHANGED <<env_key, client, initialization_error, pc, api_key, ret, constructed,
                   nClients, validated, oldClient>>

\* get_status(), line 95: 'client_initialized': self.client is not None
StatusClient ==
    /\ UNCHANGED <<chatVars, promptVars>>
    /\ rpc = "s95"
    /\ Observe
    /\ status' = [status EXCEPT !.client_initialized = (client # None)]
    /\ rpc' = "s96"
    /\ UNCHANGED <<env_key, client, initialization_error, pc, api_key, ret, constructed,
                   nClients, validated, oldClient>>

\* get_status(), line 96: 'api_key_present': bool(os.getenv('GROQ_API_KEY'))
StatusKey ==
    /\ UNCHANGED <<chatVars, promptVars>>
    /\ rpc = "s96"
    /\ status' = [status EXCEPT !.api_key_present = Truthy(env_key)]
    /\ rpc' = "s97"
    /\ UNCHANGED <<env_key, client, initialization_error, pc, api_key, ret, constructed,
                   nClients, validated, oldClient, obs>>

\* get_status(), line 97: 'initialization_error': self.initialization_error
StatusError ==
    /\ UNCHANGED <<chatVars, promptVars>>
    /\ rpc = "s97"
    /\ status' = [status EXCEPT !.initialization_error = initialization_error]
    /\ rpc' = "idle"
    /\ UNCHANGED <<env_key, client, initialization_error, pc, api_key, ret, constructed,
                   nClients, validated, oldClient, obs>>


-----------------------------------------------------------------------------
(* The chat store and crear_chat / eliminar_chat / renombrar_chat           *)

MaxNombreLen == 200
MaxChatId == 3

Usuarios == {1, 2}
ChatIds == 1..MaxChatId

Chat(i, nombre, u) == [id |-> i, nombre_chat |-> nombre, usuario_id |-> u]
Mensaje(i, c) == [id |-> i, chat_id |-> c]

\* The rows the store holds at start: a chat of each user, with messages.
ChatsIniciales == {Chat(1, Lit("Historia"), 1), Chat(2, Lit("Historia"), 2)}
MensajesIniciales == {Mensaje(1, 1), Mensaje(2, 1), Mensaje(3, 2)}

\* datetime.now(), as [d, m, Y, H, M]
Relojes == {[d |-> 2, m |-> 11, Y |-> 2026, H |-> 9, M |-> 5]}

Digit(i) == <<"0", "1", "2", "3", "4", "5", "6", "7", "8", "9">>[i + 1]

RECURSIVE FromChars(_)
FromChars(cs) == IF cs = <<>> THEN <<>> ELSE SCat(<<Run(cs[1], 1)>>, FromChars(Tail(cs)))

\* %d, %m, %H, %M: two digits, zero padded; %Y: four digits
Two(k) == <<Digit((k \div 10) % 10), Digit(k % 10)>>
Four(k) == Two(k \div 100) \o Two(k % 100)

\* now.strftime('%d/%m/%Y %H:%M')
Strftime(now) ==
    Two(now.d) \o <<"/">> \o Two(now.m) \o <<"/">> \o Four(now.Y) \o <<" ">>
        \o Two(now.H) \o <<":">> \o Two(now.M)

\* f"Chat {datetime.now().strftime('%d/%m/%Y %H:%M')}"
NombrePorDefecto(now) == Str(FromChars(<<"C", "h", "a", "t", " ">> \o Strftime(now)))

\* nuevo_nombre.strip()[:200]
NombreSinLimiteMut(nuevo) == Str(SStrip(nuevo.s))
NombreLimitado(nuevo) == Str(STake(SStrip(nuevo.s), MaxNombreLen))

\* ChatIA.query.filter_by(id=chat_id, usuario_id=usuario_id).first(), as a set of
\* at most one row (id is the primary key)
BuscarChatSinDuenoMut(s, chat_id, usuario_id) == {c \in s.chats : c.id = chat_id}
BuscarChat(s, chat_id, usuario_id) ==
    {c \in s.chats : c.id = chat_id /\ c.usuario_id = usuario_id}

\* db.session.commit(): the session's rows become the committed rows
Commit(d, s) == [db |-> s, sess |-> s]

\* db.session.rollback(): the session goes back to the committed rows
RollbackOlvidadoMut(d, s) == [db |-> d, sess |-> s]
Rollback(d, s) == [db |-> d, sess |-> d]

\* a return that neither commits nor rolls back
Salir(d, s) == [db |-> d, sess |-> s]

\* What the handlers' except clauses catch when a statement of the persistence
\* layer fails, whichever statement it is.
SQLAlchemyError == "SQLAlchemyError"

\* The steps of the persistence layer that can raise, per handler.
FallosCrear == {"none", "insert", "commit"}
FallosEliminar == {"none", "query", "delete_mensajes", "delete_chat", "commit"}
FallosRenombrar == {"none", "query", "commit"}

\* crear_chat(usuario_id, nombre_chat), lines 373-395.  The INSERT is flushed by
\* commit(); a failure of either leaves the row pending until the rollback.
CrearChatRes(usuario_id, nombre_chat, now, fail) ==
    LET nombre == IF ~Truthy(nombre_chat) THEN NombrePorDefecto(now) ELSE nombre_chat
        chat == Chat(nextId, nombre, usuario_id)
        s1 == [sess EXCEPT !.chats = @ \cup {chat}]
    IN  IF fail = "none"
        THEN [st |-> Commit(db, s1), ok |-> TRUE, exc |-> "none", creado |-> nextId]
        ELSE [st |-> Rollback(db, s1), ok |-> FALSE, exc |-> SQLAlchemyError, creado |-> 0]

\* eliminar_chat(chat_id, usuario_id), lines 397-422.  The bulk DELETE of the
\* messages is executed at once; the DELETE of the chat is flushed by commit().
EliminarChatRes(chat_id, usuario_id, fail) ==
    LET chat == BuscarChat(sess, chat_id, usuario_id)
        filas == {m \in sess.mensajes : m.chat_id = chat_id}
        s1 == [sess EXCEPT !.mensajes = @ \ filas]
        s2 == [s1 EXCEPT !.chats = @ \ chat]
    IN  IF fail = "query"
        THEN [st |-> Rollback(db, sess), ok |-> FALSE, exc |-> SQLAlchemyError, found |-> FALSE,
              borrados |-> 0]
        ELSE IF chat = {}
        THEN [st |-> Salir(db, sess), ok |-> FALSE, exc |-> "none", found |-> FALSE,
              borrados |-> 0]
        ELSE IF fail = "delete_mensajes"
        THEN [st |-> Rollback(db, sess), ok |-> FALSE, exc |-> SQLAlchemyError, found |-> TRUE,
              borrados |-> 0]
        ELSE IF fail \in {"delete_chat", "commit"}
        THEN [st |-> Rollback(db, IF fail = "commit" THEN s2 ELSE s1), ok |-> FALSE,
              exc |-> SQLAlchemyError, found |-> TRUE, borrados |-> Cardinality(filas)]
        ELSE [st |-> Commit(db, s2), ok |-> TRUE, exc |-> "none", found |-> TRUE,
              borrados |-> Cardinality(filas)]

\* chat.nombre_chat = ..., line 435: the session's rows with the found row renamed
RenombradoTodosMut(s, chat, nombre) ==
    [s EXCEPT !.chats =
        {IF \E f \in chat : f.usuario_id = c.usuario_id THEN [c EXCEPT !.nombre_chat = nombre]
         ELSE c : c \in @}]
Renombrado(s, chat, nombre) ==
    [s EXCEPT !.chats = {IF c \in chat THEN [c EXCEPT !.nombre_chat = nombre] ELSE c : c \in @}]

\* renombrar_chat(chat_id, usuario_id, nuevo_nombre), lines 424-443.  A
\* nuevo_nombre of None raises AttributeError at .strip(), inside the try; the
\* UPDATE is flushed by commit().
RenombrarChatRes(chat_id, usuario_id, nuevo_nombre, fail) ==
    LET chat == BuscarChat(sess, chat_id, usuario_id)
        s1 == Renombrado(sess, chat, NombreLimitado(nuevo_nombre))
    IN  IF fail = "query"
        THEN [st |-> Rollback(db, sess), ok |-> FALSE, exc |-> SQLAlchemyError, found |-> FALSE]
        ELSE IF chat = {}
        THEN [st |-> Salir(db, sess), ok |-> FALSE, exc |-> "none", found |-> FALSE]
        ELSE IF nuevo_nombre.t # "str"
        THEN [st |-> Rollback(db, sess), ok |-> FALSE, exc |-> "AttributeError",
              found |-> TRUE]
        ELSE IF fail = "commit"
        THEN [st |-> Rollback(db, s1), ok |-> FALSE, exc |-> SQLAlchemyError, found |-> TRUE]
        ELSE [st |-> Commit(db, s1), ok |-> TRUE, exc |-> "none", found |-> TRUE]

\* The names callers pass to crear_chat: None, and an explicit name of 199
\* characters, which is stored as given.
NombresCrear == {None, Str(<<Run("a", 199)>>)}

\* The names callers pass to renombrar_chat: None, 201 characters of which 199
\* remain once stripped, 251 with a leading blank.
NombresNuevos ==
    { None,
      Str(<<Run("a", 199), Run(" ", 2)>>),
      Str(<<Run(" ", 1), Run("a", 250)>>) }

StoreInicial == [chats |-> ChatsIniciales, mensajes |-> MensajesIniciales]
PrimerId == Cardinality(ChatsIniciales) + 1

NoLast == [op |-> "none", chat_id |-> 0, usuario_id |-> 0, nombre |-> None,
           exc |-> "none", ok |-> FALSE, found |-> FALSE, borrados |-> 0, creado |-> 0]

CrearChat ==
    /\ UNCHANGED <<facadeVars, promptVars>>
    /\ nextId <= MaxChatId
    /\ \E usuario_id \in Usuarios, nombre_chat \in NombresCrear, now \in Relojes,
          fail \in FallosCrear :
          \E r \in {CrearChatRes(usuario_id, nombre_chat, now, fail)} :
              /\ db' = r.st.db
              /\ sess' = r.st.sess
              /\ nextId' = IF r.ok THEN nextId + 1 ELSE nextId
              /\ last' = [NoLast EXCEPT !.op = "crear", !.usuario_id = usuario_id,
                                        !.nombre = nombre_chat, !.exc = r.exc,
                                        !.ok = r.ok, !.creado = r.creado]

EliminarChat ==
    /\ UNCHANGED <<facadeVars, promptVars>>
    /\ \E chat_id \in ChatIds, usuario_id \in Usuarios, fail \in FallosEliminar :
          \E r \in {EliminarChatRes(chat_id, usuario_id, fail)} :
              /\ db' = r.st.db
              /\ sess' = r.st.sess
              /\ last' = [NoLast EXCEPT !.op = "eliminar", !.chat_id = chat_id,
                                        !.usuario_id = usuario_id, !.exc = r.exc,
                                        !.ok = r.ok, !.found = r.found,
                                        !.borrados = r.borrados]
    /\ UNCHANGED nextId

RenombrarChat ==
    /\ UNCHANGED <<facadeVars, promptVars>>
    /\ \E chat_id \in ChatIds, usuario_id \in Usuarios, nuevo_nombre \in NombresNuevos,
          fail \in FallosRenombrar :
          \E r \in {RenombrarChatRes(chat_id, usuario_id, nuevo_nombre, fail)} :
              /\ db' = r.st.db
              /\ sess' = r.st.sess
              /\ last' = [NoLast EXCEPT !.op = "renombrar", !.chat_id = chat_id,
                                        !.usuario_id = usuario_id, !.nombre = nuevo_nombre,
                                        !.exc = r.exc, !.ok = r.ok, !.found = r.found]
    /\ UNCHANGED nextId


-----------------------------------------------------------------------------
(* Values the prompt builders read: the user, dates, the rows of the store  *)

Entero(k) == [t |-> "int", v |-> k]
Fecha(y, m, d) == [t |-> "date", y |-> y, m |-> m, d |-> d]
Rol(r) == [t |-> "rol", value |-> r]
Lista(items) == [t |-> "list", items |-> items]
Raise(e) == [t |-> "raise", exc |-> e]

\* RolUsuario: the teacher, and the roles that are not the teacher
PROFESOR == Rol("profesor")
ALUMNO == Rol("alumno")
ADMIN == Rol("admin")

Text(cs) == Str(FromChars(cs))

\* v or d
Or(v, d) == IF Truthy(v) THEN v ELSE d

RECURSIVE IntChars(_)
IntChars(k) == IF k < 10 THEN <<Digit(k)>> ELSE IntChars(k \div 10) \o <<Digit(k % 10)>>

\* str(v), and {v} in an f-string
Fmt(v) ==
    CASE v.t = "str" -> v.s
      [] v.t = "None" -> FromChars(<<"N", "o", "n", "e">>)
      [] v.t = "int" -> FromChars(IntChars(v.v))
      [] v.t = "rol" -> <<Run(v.value, 1)>>

\* An f-string: its literal pieces and formatted values, concatenated.
RECURSIVE Join(_)
Join(parts) == IF parts = <<>> THEN <<>> ELSE SCat(parts[1], Join(Tail(parts)))

L(text) == <<Run(text, 1)>>

Min(a, b) == IF a < b THEN a ELSE b
Max(a, b) == IF a > b THEN a ELSE b

-----------------------------------------------------------------------------
(* _calculate_age *)

EdadMaxima == 120
EdadProfesor == 30
EdadOtros == 16

\* (hoy.month, hoy.day) < (fecha_nac.month, fecha_nac.day): tuples compare
\* lexicographically
AntesOIgualMut(a, b) == a.m < b.m \/ (a.m = b.m /\ a.d <= b.d)
Antes(a, b) == a.m < b.m \/ (a.m = b.m /\ a.d < b.d)

\* lines 302 and 304: usuario.rol raises AttributeError when the object has no rol
EdadPorDefecto(u) ==
    IF u.rol.t = "Missing" THEN Raise("AttributeError")
    ELSE IF u.rol = PROFESOR THEN Entero(EdadProfesor) ELSE Entero(EdadOtros)

\* _calculate_age(usuario), lines 291-304, with date.today() = today.  A truthy
\* fecha_nacimiento that is no date raises at .year and line 304 answers.
CalculateAge(u, today) ==
    IF u.fecha_nacimiento.t = "date"
    THEN LET nac == u.fecha_nacimiento
             e == today.y - nac.y - (IF Antes(today, nac) THEN 1 ELSE 0)
         IN  Entero(Max(0, Min(e, EdadMaxima)))
    ELSE EdadPorDefecto(u)

-----------------------------------------------------------------------------
(* _get_institucion_data, _get_materias_profesor, _get_materias_alumno *)

NoEspecificado == Lit("No especificado")
Estandar == Lit("Estandar")

\* str(institucion.x if hasattr(institucion, 'x') else d)
Campo(v, d) == IF v.t = "Missing" THEN d ELSE Str(Fmt(v))

InstitucionPorDefecto ==
    [nombre |-> NoEspecificado, valores |-> NoEspecificado,
     metodologia |-> NoEspecificado, configuracion |-> Estandar]

\* _get_institucion_data(usuario), lines 306-326: u.institucion is what
\* usuario.get_institucion() gives (Missing: the object has no such method)
InstitucionData(u) ==
    IF u.institucion.t = "inst"
    THEN [nombre |-> Campo(u.institucion.nombre, NoEspecificado),
          valores |-> Campo(u.institucion.valores_institucionales, NoEspecificado),
          metodologia |-> Campo(u.institucion.metodologia_pedagogica, NoEspecificado),
          configuracion |-> Campo(u.institucion.configuracion_ia, Estandar)]
    ELSE InstitucionPorDefecto

\* The rows of Materia joined with Curso, and profesor_curso_materia.
Materias ==
    { [id |-> 1, nombre |-> Lit("Historia"), descripcion |-> None,
       curso_id |-> 1, curso |-> Lit("1A"), profesores |-> {1}],
      [id |-> 2, nombre |-> None, descripcion |-> Lit("Algebra lineal"),
       curso_id |-> 2, curso |-> Lit("2B"), profesores |-> {1}] }

MateriaDe(materia_id) == CHOOSE m \in Materias : m.id = materia_id

\* a set of rows as a list, by id
RECURSIVE PorId(_)
PorId(S) ==
    IF S = {} THEN <<>>
    ELSE LET a == CHOOSE x \in S : \A y \in S : x.id <= y.id IN <<a>> \o PorId(S \ {a})

MateriaEntry(m) ==
    [nombre |-> m.nombre, curso |-> m.curso,
     descripcion |-> Or(m.descripcion, Lit("Sin descripcion"))]

\* the loops of lines 340-345 and 360-365
MateriaEntries(seq) == [i \in 1..Len(seq) |-> MateriaEntry(seq[i])]

\* _get_materias_profesor(profesor), lines 328-350
MateriasProfesor(u, fails) ==
    IF "materias" \in fails \/ u.id.t = "Missing" THEN <<>>
    ELSE MateriaEntries(PorId({m \in Materias : u.id.v \in m.profesores}))

RECURSIVE MateriasDeCursos(_)
MateriasDeCursos(cursos) ==
    IF cursos = <<>> THEN <<>>
    ELSE MateriaEntries(PorId({m \in Materias : m.curso_id = cursos[1]}))
             \o MateriasDeCursos(Tail(cursos))

\* _get_materias_alumno(alumno), lines 352-370
MateriasAlumno(u, fails) ==
    IF u.cursos.t # "list" \/ u.cursos.items = <<>> THEN <<>>
    ELSE IF "materias" \in fails THEN <<>>
    ELSE MateriasDeCursos(u.cursos.items)

-----------------------------------------------------------------------------
(* _get_archivos_data *)

MaxTexto == 2000
LimiteArchivos == 10

Ellipsis == <<Run(".", 3)>>

\* archivo_path.split('/')[-1]
RECURSIVE UltimoSegmento(_)
UltimoSegmento(s) ==
    IF s = <<>> THEN <<>>
    ELSE IF s[Len(s)].c = "/" THEN <<>>
    ELSE SCat(UltimoSegmento(SubSeq(s, 1, Len(s) - 1)), <<s[Len(s)]>>)

\* .order_by(ArchivoMateria.fecha_subida.desc())
RECURSIVE OrdenDesc(_)
OrdenDesc(S) ==
    IF S = {} THEN <<>>
    ELSE LET a == CHOOSE x \in S : \A y \in S : y.fecha_subida <= x.fecha_subida
         IN  <<a>> \o OrdenDesc(S \ {a})

\* .limit(10)
Limit(seq, k) == SubSeq(seq, 1, Min(k, Len(seq)))

\* lines 113-119: the files of the subjects the teacher is assigned to
ConsultaProfesor(rows, u) ==
    Limit(OrdenDesc({a \in rows : u.id.v \in MateriaDe(a.materia_id).profesores}),
          LimiteArchivos)

\* lines 160-164: the files of the subjects of the student's course
ConsultaAlumno(rows, u) ==
    Limit(OrdenDesc({a \in rows : MateriaDe(a.materia_id).curso_id = u.curso_id.v}),
          LimiteArchivos)

\* lines 169-178
TextoProcesado(texto) ==
    IF ~Truthy(texto) THEN Lit("Texto no disponible")
    ELSE IF SLen(texto.s) > MaxTexto THEN Str(SCat(STake(texto.s, MaxTexto), Ellipsis))
    ELSE texto

\* lines 131-133 and 180-186: archivo.materia is the row's subject, or None
NombreMateria(a) ==
    IF a.rel = "none" THEN Lit("Sin materia")
    ELSE Or(MateriaDe(a.materia_id).nombre, Lit("Sin materia"))
NombreCurso(a) ==
    IF a.rel = "none" THEN Lit("Sin curso")
    ELSE Or(MateriaDe(a.materia_id).curso, Lit("Sin curso"))

\* lines 124-139: the teacher's entry of a file
EntradaProfesorConTextoMut(a) ==
    [tema |-> Or(a.nombre_tema, Lit("Sin tema")),
     materia |-> NombreMateria(a),
     nombre_archivo |-> IF Truthy(a.archivo_path) THEN Str(UltimoSegmento(a.archivo_path.s))
                        ELSE Lit("Sin nombre"),
     texto |-> TextoProcesado(a.texto_extraido)]
EntradaProfesor(a) ==
    [tema |-> Or(a.nombre_tema, Lit("Sin tema")),
     materia |-> NombreMateria(a),
     nombre_archivo |-> IF Truthy(a.archivo_path) THEN Str(UltimoSegmento(a.archivo_path.s))
                        ELSE Lit("Sin nombre")]

\* lines 169-195: the student's entry of a file
EntradaAlumno(a) ==
    [tema |-> Or(a.nombre_tema, Lit("Sin tema")),
     notas |-> Or(a.notas_adicionales, Lit("Sin notas adicionales")),
     instrucciones |-> Or(a.instrucciones_ensenanza, Lit("Sin instrucciones especificas")),
     texto |-> TextoProcesado(a.texto_extraido),
     materia |-> NombreMateria(a),
     curso |-> NombreCurso(a)]

\* the for loops of lines 122-143 and 167-199: a file whose processing raises
\* (its subject cannot be loaded) is skipped
RECURSIVE EntradasProfesor(_)
EntradasProfesor(files) ==
    IF files = <<>> THEN <<>>
    ELSE IF files[1].rel = "raises" THEN EntradasProfesor(Tail(files))
    ELSE <<EntradaProfesor(files[1])>> \o EntradasProfesor(Tail(files))

RECURSIVE EntradasAlumno(_)
EntradasAlumno(files) ==
    IF files = <<>> THEN <<>>
    ELSE IF files[1].rel = "raises" THEN EntradasAlumno(Tail(files))
    ELSE <<EntradaAlumno(files[1])>> \o EntradasAlumno(Tail(files))

\* the role test of line 111
EsProfesorFetch(u) == u.rol = PROFESOR

\* _get_archivos_data(usuario), lines 107-209.  Every except clause formats
\* usuario.id into its log line, so an object without id makes the clause raise
\* again, up to the caller.
ArchivosData(rows, u, fails) ==
    IF u.rol.t = "Missing"
    THEN IF u.id.t = "Missing" THEN Raise("AttributeError") ELSE Lista(<<>>)
    ELSE IF u.id.t = "Missing" /\ (EsProfesorFetch(u) \/ ~(u.curso_id.t = "int"))
    THEN Raise("AttributeError")
    ELSE IF EsProfesorFetch(u)
    THEN IF "archivos" \in fails THEN Lista(<<>>)
         ELSE Lista(EntradasProfesor(ConsultaProfesor(rows, u)))
    ELSE IF u.curso_id.t # "int" THEN Lista(<<>>)
    ELSE IF "archivos" \in fails
    THEN IF u.id.t = "Missing" THEN Raise("AttributeError") ELSE Lista(<<>>)
    ELSE Lista(EntradasAlumno(ConsultaAlumno(rows, u)))

-----------------------------------------------------------------------------
(* _get_env_vars and _build_system_prompt *)

EnvNames == {"NOMBRE", "LIMITACIONES", "ROL_IA_ALUMNOS", "ROL_IA_PROFESORES",
             "EDAD_REGULACION"}

\* _get_env_vars(), lines 65-73: a dict with every name, os.getenv(name) each
GetEnvVars(e) == [k \in EnvNames |-> e[k]]

\* dict.get(k, d): d only when the dict has no key k
DictGet(dict, k, d) == IF k \in DOMAIN dict THEN dict[k] ELSE d

\* the role test of lines 223, 246, 257, 261 and 288
EsProfesorRender(u) == u.rol = PROFESOR

Sustantivo(u) == IF EsProfesorRender(u) THEN L("profesor") ELSE L("estudiante")

\* lines 286-289: the except clause reads usuario.rol again
Fallback(u) ==
    IF u.rol.t = "Missing" THEN Raise("AttributeError")
    ELSE [t |-> "prompt", fallback |-> TRUE,
          lines |-> <<Join(<<L("Eres un asistente educativo especializado para "),
                             Sustantivo(u),
                             L("s. Ayuda de manera apropiada y educativa.")>>)>>,
          archivos_data |-> <<>>]

\* lines 262-269
BloqueProfesor(idx, archivo) ==
    << <<>>,
       Join(<<L("Archivo "), Fmt(Entero(idx)), L(":")>>),
       Join(<<L("- Tema: "), Fmt(archivo.tema)>>),
       Join(<<L("- Materia: "), Fmt(archivo.materia)>>),
       Join(<<L("- Nombre: "), Fmt(archivo.nombre_archivo)>>) >>

\* lines 271-280
BloqueAlumno(idx, archivo) ==
    << L("Archivos cargados por el profesor."),
       Join(<<L("Archivo "), Fmt(Entero(idx)), L(":")>>),
       Join(<<L("- Tema: "), Fmt(archivo.tema)>>),
       Join(<<L("- Materia: "), Fmt(archivo.materia)>>),
       Join(<<L("- Notas: "), Fmt(archivo.notas)>>),
       Join(<<L("- Instrucciones de ensenanza: "), Fmt(archivo.instrucciones)>>),
       Join(<<L("- Contenido: "), Fmt(archivo.texto), Ellipsis>>) >>

\* for idx, archivo in enumerate(archivos_data, 1), lines 262 and 271
RECURSIVE BloquesProfesor(_, _)
BloquesProfesor(data, idx) ==
    IF idx > Len(data) THEN <<>>
    ELSE BloqueProfesor(idx, data[idx]) \o BloquesProfesor(data, idx + 1)

RECURSIVE BloquesAlumno(_, _)
BloquesAlumno(data, idx) ==
    IF idx > Len(data) THEN <<>>
    ELSE BloqueAlumno(idx, data[idx]) \o BloquesAlumno(data, idx + 1)

\* the keys lines 266-268 and 275-279 read
ClavesProfesor == {"tema", "materia", "nombre_archivo"}
ClavesAlumno == {"tema", "materia", "notas", "instrucciones", "texto"}

\* lines 248-249 and 252-253
LineaMateria(materia) ==
    Join(<<L("- "), Fmt(materia.nombre), L(" ("), Fmt(materia.curso), L(")")>>)
LineasMaterias(info) == [i \in 1..Len(info) |-> LineaMateria(info[i])]

\* _build_system_prompt(usuario), lines 211-289
BuildSystemPrompt(rows, u, today, fails, e) ==
    LET env_vars == GetEnvVars(e)
        apellido_usuario == IF u.apellido.t = "Missing" THEN Str(<<>>) ELSE u.apellido
        edad_usuario == CalculateAge(u, today)
        institucion_data == InstitucionData(u)
        archivos_data == ArchivosData(rows, u, fails)
        rol_ia == IF EsProfesorRender(u)
                  THEN DictGet(env_vars, "ROL_IA_PROFESORES",
                               Lit("un asistente educativo para profesores"))
                  ELSE DictGet(env_vars, "ROL_IA_ALUMNOS",
                               Lit("un asistente educativo para estudiantes"))
        materias_info == IF EsProfesorRender(u) THEN MateriasProfesor(u, fails)
                         ELSE MateriasAlumno(u, fails)
        cabecera ==
            << Join(<<L("Eres "),
                      Fmt(DictGet(env_vars, "NOMBRE", Lit("un asistente educativo"))),
                      L(", "), Fmt(rol_ia), L(".")>>),
               Join(<<L("Tus limitaciones son: "),
                      Fmt(DictGet(env_vars, "LIMITACIONES",
                                  Lit("Responde de manera educativa y apropiada")))>>),
               L("Ahora mismo estas hablando con:"),
               Join(<<Fmt(u.nombre), L(" "), Fmt(apellido_usuario), L(".")>>),
               Join(<<L("Su rol es: "), Fmt(u.rol), L(".")>>),
               Join(<<L("Su edad es: "), Fmt(edad_usuario), L(" anos.")>>),
               Join(<<L("Regulacion de edad: "),
                      Fmt(DictGet(env_vars, "EDAD_REGULACION", Text(<<"1", "3">>))),
                      L(" anos.")>>),
               L("Informacion de la institucion:"),
               Join(<<L("Nombre: "), Fmt(institucion_data.nombre)>>),
               Join(<<L("Valores institucionales: "), Fmt(institucion_data.valores)>>),
               Join(<<L("Metodologia pedagogica: "), Fmt(institucion_data.metodologia)>>),
               Join(<<L("Configuracion IA: "), Fmt(institucion_data.configuracion)>>),
               <<>> >>
        materias ==
            << IF EsProfesorRender(u) THEN L("Materias que ensena:")
               ELSE L("Materias en las que esta inscrito:") >>
                \o LineasMaterias(materias_info)
        titulo ==
            << <<>>,
               Join(<<L("Archivos y contenidos disponibles del "), Sustantivo(u), L(":")>>) >>
        claves == IF EsProfesorRender(u) THEN ClavesProfesor ELSE ClavesAlumno
    IN  IF \/ u.nombre.t = "Missing"
           \/ u.rol.t = "Missing"
           \/ edad_usuario.t = "raise"
           \/ archivos_data.t = "raise"
        THEN Fallback(u)
        ELSE IF \E i \in 1..Len(archivos_data.items) :
                   ~(claves \subseteq DOMAIN archivos_data.items[i])
        THEN Fallback(u)
        ELSE [t |-> "prompt", fallback |-> FALSE,
              lines |-> cabecera \o materias \o titulo \o
                        (IF archivos_data.items = <<>>
                         THEN <<L("No hay archivos disponibles actualmente.")>>
                         ELSE IF EsProfesorRender(u)
                         THEN BloquesProfesor(archivos_data.items, 1)
                         ELSE BloquesAlumno(archivos_data.items, 1)),
              archivos_data |-> archivos_data.items]

-----------------------------------------------------------------------------
(* The users, dates, rows and configurations the builders are run on *)

Pending == [t |-> "pending"]

Inst ==
    [t |-> "inst", nombre |-> Lit("Colegio Norte"), valores_institucionales |-> None,
     metodologia_pedagogica |-> Missing, configuracion_ia |-> Lit("Socratica")]

Profesor1 ==
    [id |-> Entero(1), nombre |-> Lit("Ana"), apellido |-> Lit("Paz"), rol |-> PROFESOR,
     fecha_nacimiento |-> Fecha(1980, 6, 15), curso_id |-> None, cursos |-> Lista(<<>>),
     institucion |-> Inst]
Alumno2 ==
    [id |-> Entero(2), nombre |-> Lit("Luis"), apellido |-> Missing, rol |-> ALUMNO,
     fecha_nacimiento |-> None, curso_id |-> Entero(1), cursos |-> Lista(<<1>>),
     institucion |-> None]
Admin3 ==
    [id |-> Entero(3), nombre |-> Lit("Eva"), apellido |-> Lit("Sol"), rol |-> ADMIN,
     fecha_nacimiento |-> Lit("1990-01-01"), curso_id |-> Entero(2), cursos |-> Missing,
     institucion |-> [t |-> "raises"]]

\* usuario = None behaves as an object with no attribute at all
SinUsuario ==
    [id |-> Missing, nombre |-> Missing, apellido |-> Missing, rol |-> Missing,
     fecha_nacimiento |-> Missing, curso_id |-> Missing, cursos |-> Missing,
     institucion |-> Missing]

\* Well-formed users, and each with one attribute absent or None.
UsuariosPrompt ==
    LET bases == {Profesor1, Alumno2, Admin3}
    IN  bases
        \cup {[b EXCEPT ![f] = Missing] : b \in bases, f \in {"id", "nombre", "rol", "curso_id"}}
        \cup {[b EXCEPT ![f] = None] : b \in bases, f \in {"nombre", "rol"}}
        \cup {SinUsuario}

Archivo(i, materia_id) ==
    [id |-> i, fecha_subida |-> i, materia_id |-> materia_id, rel |-> "ok",
     nombre_tema |-> Lit("Roma"), notas_adicionales |-> Lit("Leer antes de clase"),
     instrucciones_ensenanza |-> Lit("Usar ejemplos"),
     texto_extraido |-> Str(<<Run("a", 3)>>),
     archivo_path |-> Text(<<"d", "/", "r", ".", "p", "d", "f">>)]

\* A complete file; one with every optional field absent; one of 2001
\* characters whose path ends in '/'; one of exactly 2000 characters in the other
\* course; one whose subject cannot be loaded.
ArchivosBase ==
    { Archivo(1, 1),
      [Archivo(2, 1) EXCEPT !.nombre_tema = None, !.notas_adicionales = None,
                            !.instrucciones_ensenanza = Str(<<>>),
                            !.texto_extraido = None, !.archivo_path = None,
                            !.rel = "none"],
      [Archivo(3, 1) EXCEPT !.texto_extraido = Str(<<Run("a", 2000), Run("b", 1)>>),
                            !.archivo_path = Text(<<"d", "/">>)],
      [Archivo(4, 2) EXCEPT !.texto_extraido = Str(<<Run("a", 2000)>>)],
      [Archivo(5, 1) EXCEPT !.rel = "raises"] }

\* The table holds at most two of the files above, or eleven files of one subject.
Tablas ==
    {S \in SUBSET ArchivosBase : Cardinality(S) <= 2}
        \cup {{Archivo(i, 1) : i \in 10..(10 + LimiteArchivos)}}

EnvVacio == [k \in EnvNames |-> None]
EnvCompleto ==
    [k \in EnvNames |->
        CASE k = "NOMBRE" -> Lit("Scholaria")
          [] k = "LIMITACIONES" -> Lit("No des respuestas de examen")
          [] k = "ROL_IA_ALUMNOS" -> Lit("un tutor")
          [] k = "ROL_IA_PROFESORES" -> Lit("un colega")
          [] k = "EDAD_REGULACION" -> Text(<<"1", "4">>)]
\* the process environment with one name unset
EnvSin(nombre) == [EnvCompleto EXCEPT ![nombre] = None]
Entornos == {EnvVacio, EnvCompleto} \cup {EnvSin(k) : k \in EnvNames}

FallosConsulta == {"archivos", "materias"}

HoyPrompt == Fecha(2026, 11, 2)

\* Birth dates around the clamps of 0 and 120 and around today's month and day.
Nacimientos ==
    {Missing, None, Lit("1990-01-01"), Fecha(1904, 2, 29), Fecha(2008, 2, 29)}
        \cup {Fecha(y, md[1], md[2]) :
                 y \in {1900, 1905, 1906, 1907, 2010, 2026, 2027, 2031},
                 md \in {<<1, 1>>, <<6, 14>>, <<6, 15>>, <<6, 16>>, <<12, 31>>}}
Hoys == {Fecha(2026, 6, 15), Fecha(2026, 2, 28), Fecha(2026, 3, 1), Fecha(2027, 1, 1)}
UsuariosEdad ==
    {[Profesor1 EXCEPT !.rol = r, !.fecha_nacimiento = f] :
        r \in {PROFESOR, ALUMNO, ADMIN, None}, f \in Nacimientos}

\* a caller evaluates _calculate_age(usuario)
CalcularEdad ==
    /\ UNCHANGED <<facadeVars, chatVars>>
    /\ edad = Pending
    /\ edad' = CalculateAge(usuario, hoy)
    /\ UNCHANGED <<usuario, hoy, archivos, fallos, env, prompt>>

\* a caller evaluates _build_system_prompt(usuario)
ConstruirPrompt ==
    /\ UNCHANGED <<facadeVars, chatVars>>
    /\ prompt = Pending
    /\ prompt' = BuildSystemPrompt(archivos, usuario, hoy, fallos, env)
    /\ UNCHANGED <<usuario, hoy, archivos, fallos, env, edad>>

-----------------------------------------------------------------------------
(* Specifications *)

NextFacade ==
    \/ ReinitClearClient
    \/ ReinitClearError
    \/ InitReadKey
    \/ InitCheckKey
    \/ InitCreateClient
    \/ InitValidate
    \/ InitSuccess
    \/ ExceptClearClient
    \/ ExceptSetError
    \/ SetEnvKey
    \/ ReadIsAvailable
    \/ StatusAvailable
    \/ StatusClient
    \/ StatusKey
    \/ StatusError

\* __init__, lines 15-16, has run and line 17 is about to call _initialize_groq;
\* the chat store and the prompt builder are not used.
InitFacade ==
    /\ env_key \in Keys
    /\ client = None
    /\ initialization_error = None
    /\ pc = "i23"
    /\ api_key = None
    /\ ret = FALSE
    /\ constructed = FALSE
    /\ nClients = 0
    /\ validated = {}
    /\ oldClient = None
    /\ obs = NoObs
    /\ rpc = "idle"
    /\ status = NoStatus
    /\ db = StoreInicial
    /\ sess = StoreInicial
    /\ nextId = PrimerId
    /\ last = NoLast
    /\ usuario = SinUsuario
    /\ hoy = HoyPrompt
    /\ archivos = {}
    /\ fallos = {}
    /\ env = EnvVacio
    /\ edad = Pending
    /\ prompt = Pending

\* The facade from the start of its constructor, with readers and configuration
\* changes interleaved.
SpecFacade == InitFacade /\ [][NextFacade]_vars

NextChat ==
    \/ CrearChat
    \/ EliminarChat
    \/ RenombrarChat

\* The store holds the initial rows and the session is clean; the facade was
\* constructed without an API key and the prompt builder is not used.
InitChat ==
    /\ env_key = None
    /\ client = None
    /\ initialization_error = ErrNoKey
    /\ pc = "idle"
    /\ api_key = None
    /\ ret = FALSE
    /\ constructed = TRUE
    /\ nClients = 0
    /\ validated = {}
    /\ oldClient = None
    /\ obs = NoObs
    /\ rpc = "idle"
    /\ status = NoStatus
    /\ db = StoreInicial
    /\ sess = StoreInicial
    /\ nextId = PrimerId
    /\ last = NoLast
    /\ usuario = SinUsuario
    /\ hoy = HoyPrompt
    /\ archivos = {}
    /\ fallos = {}
    /\ env = EnvVacio
    /\ edad = Pending
    /\ prompt = Pending

\* Any sequence of CRUD calls, each with any injected persistence failure.
SpecChat == InitChat /\ [][NextChat]_vars

NextEdad == CalcularEdad

\* A user and a current date; the facade was constructed without an API key
\* and the store is not used.
InitEdad ==
    /\ env_key = None
    /\ client = None
    /\ initialization_error = ErrNoKey
    /\ pc = "idle"
    /\ api_key = None
    /\ ret = FALSE
    /\ constructed = TRUE
    /\ nClients = 0
    /\ validated = {}
    /\ oldClient = None
    /\ obs = NoObs
    /\ rpc = "idle"
    /\ status = NoStatus
    /\ db = StoreInicial
    /\ sess = StoreInicial
    /\ nextId = PrimerId
    /\ last = NoLast
    /\ usuario \in UsuariosEdad
    /\ hoy \in Hoys
    /\ archivos = {}
    /\ fallos = {}
    /\ env = EnvVacio
    /\ edad = Pending
    /\ prompt = Pending

\* _calculate_age on every user and date drawn.
SpecEdad == InitEdad /\ [][NextEdad]_vars

NextPrompt == ConstruirPrompt

\* A user, the table of files, the queries that fail and the configuration.
InitPrompt ==
    /\ env_key = None
    /\ client = None
    /\ initialization_error = ErrNoKey
    /\ pc = "idle"
    /\ api_key = None
    /\ ret = FALSE
    /\ constructed = TRUE
    /\ nClients = 0
    /\ validated = {}
    /\ oldClient = None
    /\ obs = NoObs
    /\ rpc = "idle"
    /\ status = NoStatus
    /\ db = StoreInicial
    /\ sess = StoreInicial
    /\ nextId = PrimerId
    /\ last = NoLast
    /\ usuario \in UsuariosPrompt
    /\ hoy = HoyPrompt
    /\ archivos \in Tablas
    /\ fallos \in SUBSET FallosConsulta
    /\ env \in Entornos
    /\ edad = Pending
    /\ prompt = Pending

\* _build_system_prompt on every input drawn.
SpecPrompt == InitPrompt /\ [][NextPrompt]_vars

-----------------------------------------------------------------------------
(* The connectivity claims, under SpecFacade *)

\* No initialization is in progress and the instance is published.
Quiescent == constructed /\ pc = "idle"

\* C1 as stated: in every state between calls, whatever the configuration has
\* become, is_available() is false when the API key is absent from the
\* configuration, and it is true only for a client whose validation call
\* returned a choice.
C1_Original ==
    Quiescent =>
        /\ ~Truthy(env_key) => ~IsAvailable
        /\ IsAvailable => client.id \in validated

\* C1 as amended: in every state between calls, is_available() is false when
\* the API key was absent from the configuration at the time the latest
\* initialization or reinitialization read it, and is_available() is true only
\* for a client whose validation call, made by an initialization or
\* reinitialization, returned at least one choice.
C1_AvailableOnlyAfterValidation ==
    Quiescent =>
        /\ ~Truthy(api_key) => ~IsAvailable
        /\ IsAvailable => client.id \in validated

\* A reinitialization that found no key, after an earlier one had succeeded.
C1_Witness ==
    /\ Quiescent
    /\ ~Truthy(api_key)
    /\ validated # {}
    /\ ~IsAvailable
    /\ ret = FALSE

\* C10: while reinitialize runs, every read of the client by a reader sees
\* either the client that was there when reinitialize was called or a new
\* client whose validation call has succeeded; never a cleared client, never
\* an unvalidated one.
C10_ReadersSeeOldOrValidated ==
    obs.inflight => (obs.val = obs.old \/ obs.validated)

\* A get_status() call that has read both 'available' and 'client_initialized'
\* with no initialization in progress from its first read on.
StatusTomado == rpc \in {"s96", "s97", "idle"} /\ status.quiet

\* C12: whenever no initialization is in progress, after the constructor and
\* after every return of reinitialize, the client is non-null exactly when
\* initialization_error is null and the value the initialization returned
\* equals is_available(); a get_status() taken with no initialization in
\* progress reports 'available' equal to 'client_initialized'.  So a failed
\* reinitialize, also after a successful one, leaves the facade unavailable
\* with a non-null error.
C12_ClientIffNoError ==
    /\ Quiescent =>
          /\ (client # None) <=> (initialization_error = None)
          /\ ret = IsAvailable
          /\ ret = FALSE => (~IsAvailable /\ initialization_error # None)
    /\ StatusTomado => status.available = status.client_initialized

\* A reinitialize that failed after an earlier initialization had succeeded,
\* and a get_status() taken after it returned.
C12_Witness ==
    /\ Quiescent
    /\ validated # {}
    /\ ret = FALSE
    /\ client = None
    /\ initialization_error # None
    /\ rpc = "idle" /\ status.quiet
    /\ ~status.available /\ ~status.client_initialized
    /\ status.initialization_error = initialization_error

-----------------------------------------------------------------------------
(* The chat claims, under SpecChat *)

\* The chat with that id is owned by that user, in the committed rows.
Owned(d, chat_id, usuario_id) ==
    \E c \in d.chats : c.id = chat_id /\ c.usuario_id = usuario_id

PersistenceFailures == {SQLAlchemyError}

\* C2: eliminar_chat on a chat that does not exist or belongs to another user
\* returns False and leaves chats and messages as they were; on a chat of that
\* user (the persistence layer not failing) it returns True, the chat and every
\* message of it are gone, and all other chats and messages are as they were.
C2_EliminarChat ==
    [][last'.op = "eliminar" =>
         IF Owned(db, last'.chat_id, last'.usuario_id)
         THEN last'.exc = "none" =>
                 /\ last'.ok
                 /\ db'.chats = {c \in db.chats : c.id # last'.chat_id}
                 /\ db'.mensajes = {m \in db.mensajes : m.chat_id # last'.chat_id}
         ELSE /\ ~last'.ok
              /\ db' = db]_vars

\* The owner deleted a chat with two messages; another chat and its message remain.
C2_Witness ==
    /\ last.op = "eliminar" /\ last.ok /\ last.borrados = 2
    /\ db.chats # {} /\ db.mensajes # {}

\* C3: in any sequence of create, rename and delete calls a chat's name changes
\* only in a renombrar_chat call made with its owner's id; renombrar_chat with
\* an unknown chat id or another user's id returns False and changes nothing;
\* by the owner (with a name, the persistence layer not failing) it returns
\* True and changes the name of that one chat and nothing else.
C3_RenombrarChat ==
    [][/\ \A c \in db.chats : \A e \in db'.chats :
             (c.id = e.id /\ c.nombre_chat # e.nombre_chat) =>
                 /\ last'.op = "renombrar"
                 /\ last'.chat_id = c.id
                 /\ last'.usuario_id = c.usuario_id
       /\ last'.op = "renombrar" =>
             IF Owned(db, last'.chat_id, last'.usuario_id)
             THEN (last'.exc = "none" /\ last'.nombre.t = "str") =>
                     /\ last'.ok
                     /\ db'.mensajes = db.mensajes
                     /\ {c \in db'.chats : c.id # last'.chat_id}
                            = {c \in db.chats : c.id # last'.chat_id}
                     /\ {[id |-> c.id, usuario_id |-> c.usuario_id] : c \in db'.chats}
                            = {[id |-> c.id, usuario_id |-> c.usuario_id] : c \in db.chats}
             ELSE /\ ~last'.ok
                  /\ db' = db]_vars

\* The owner of chat 1 renamed it; the other user's chat kept its name.
C3_Witness ==
    /\ last.op = "renombrar" /\ last.ok /\ last.chat_id = 1
    /\ \E c \in db.chats : c.id = 1 /\ c.nombre_chat # Lit("Historia")
    /\ \E c \in db.chats : c.id = 2 /\ c.nombre_chat = Lit("Historia")

\* The name of the chat with that id, in the committed rows d.
NombreDe(d, chat_id) == (CHOOSE c \in d.chats : c.id = chat_id).nombre_chat

\* C4 as stated: a successful rename with a new name of more than 200
\* characters stores exactly 200 characters, the first 200 of the new name.
C4_Original ==
    [][(last'.op = "renombrar" /\ last'.ok /\ SLen(last'.nombre.s) > MaxNombreLen) =>
          /\ SLen(NombreDe(db', last'.chat_id).s) = MaxNombreLen
          /\ NombreDe(db', last'.chat_id).s = STake(last'.nombre.s, MaxNombreLen)]_vars

\* C4 as amended: a successful rename stores the first 200 characters of the
\* new name with its leading and trailing whitespace removed: at most 200
\* characters, exactly 200 when more than 200 remain after the whitespace is
\* removed; and repeating the identical rename leaves the stored rows unchanged.
C4_StripThenTruncate ==
    [][(last'.op = "renombrar" /\ last'.ok) =>
          LET stored == NombreDe(db', last'.chat_id).s
              stripped == SStrip(last'.nombre.s)
          IN  /\ stored = STake(stripped, MaxNombreLen)
              /\ SLen(stored) <= MaxNombreLen
              /\ SLen(stripped) > MaxNombreLen => SLen(stored) = MaxNombreLen
              /\ (/\ last.op = "renombrar" /\ last.ok
                  /\ last.chat_id = last'.chat_id
                  /\ last.nombre = last'.nombre) => db' = db]_vars

\* A rename with 201 characters, two of them trailing blanks, stored 199.
C4_Witness ==
    /\ last.op = "renombrar" /\ last.ok
    /\ SLen(last.nombre.s) > MaxNombreLen
    /\ SLen(NombreDe(db, last.chat_id).s) < MaxNombreLen

-----------------------------------------------------------------------------
(* The prompt claims, under SpecPrompt and SpecEdad *)

Built == prompt.t # "pending"

\* The one line of the generic prompt, with the noun of the user's role.
LineaGenerica(u) ==
    Join(<<L("Eres un asistente educativo especializado para "),
           IF u.rol = PROFESOR THEN L("profesor") ELSE L("estudiante"),
           L("s. Ayuda de manera apropiada y educativa.")>>)

\* C6: _build_system_prompt never raises, whatever is missing from the user or
\* fails in the sub-fetches: it returns a string, and when it gives up on the
\* data it returns the generic prompt with "profesor" for a teacher and
\* "estudiante" otherwise.
C6_NeverRaises ==
    Built =>
        /\ prompt.t = "prompt"
        /\ prompt.fallback => prompt.lines = <<LineaGenerica(usuario)>>

\* The builtin default of each configuration value, as the prompt's text names it.
PorDefecto(k) ==
    CASE k = "NOMBRE" -> Lit("un asistente educativo")
      [] k = "LIMITACIONES" -> Lit("Responde de manera educativa y apropiada")
      [] k = "ROL_IA_ALUMNOS" -> Lit("un asistente educativo para estudiantes")
      [] k = "ROL_IA_PROFESORES" -> Lit("un asistente educativo para profesores")
      [] k = "EDAD_REGULACION" -> Text(<<"1", "3">>)

\* The configuration value the prompt should show: the environment's, or the
\* default when the environment has none.
Configurado(k) == IF env[k] = None THEN PorDefecto(k) ELSE env[k]

\* The persona the prompt takes for the user's role.
ClaveRol == IF usuario.rol = PROFESOR THEN "ROL_IA_PROFESORES" ELSE "ROL_IA_ALUMNOS"

\* A full prompt was assembled, not the generic one.
Ensamblado == prompt.t = "prompt" /\ ~prompt.fallback

\* C11: in the assembled prompt each of the five configuration values that the
\* process environment lacks is shown as its builtin default ("un asistente
\* educativo", "13", ...), never as a null marker: the opening line, the
\* limitations line and the age-regulation line carry the environment's value
\* when it is set and the default when it is not.
C11_ValoresPorDefecto ==
    Ensamblado =>
        /\ prompt.lines[1] =
               Join(<<L("Eres "), Fmt(Configurado("NOMBRE")), L(", "),
                      Fmt(Configurado(ClaveRol)), L(".")>>)
        /\ prompt.lines[2] =
               Join(<<L("Tus limitaciones son: "), Fmt(Configurado("LIMITACIONES"))>>)
        /\ prompt.lines[7] =
               Join(<<L("Regulacion de edad: "), Fmt(Configurado("EDAD_REGULACION")),
                      L(" anos.")>>)

\* The files whose entries the student's prompt lists, in the prompt's order.
Listados ==
    SelectSeq(ConsultaAlumno(archivos, usuario), LAMBDA a : a.rel # "raises")

\* The "- Contenido: ..." lines of the prompt, in order.
Contenidos ==
    SelectSeq(prompt.lines, LAMBDA l : l # <<>> /\ l[1] = Run("- Contenido: ", 1))

\* C7: in the student's prompt, the content line of a file whose extracted text
\* has more than 2000 characters is its first 2000 characters and one ellipsis,
\* and the content line of a file with text of 2000 characters or fewer is that
\* text, nothing added.
C7_ContenidoTruncado ==
    (Built /\ prompt.t = "prompt" /\ ~prompt.fallback /\ usuario.rol # PROFESOR) =>
        \A i \in 1..Len(prompt.archivos_data) :
            LET texto == Listados[i].texto_extraido
            IN  Truthy(texto) =>
                    Contenidos[i] =
                        SCat(L("- Contenido: "),
                             IF SLen(texto.s) > MaxTexto
                             THEN SCat(STake(texto.s, MaxTexto), Ellipsis)
                             ELSE texto.s)

\* The labels of the lines only the student's block has.
EtiquetasAlumno ==
    {Run("- Notas: ", 1), Run("- Instrucciones de ensenanza: ", 1), Run("- Contenido: ", 1)}

Presente(v) == v.t = "str" /\ v.s # <<>>

\* C8: the entries built for a teacher hold the topic, the subject and the file
\* name and nothing else, and no line of the teacher's prompt is a notes,
\* instructions or content line; every entry built for another user holds notes,
\* instructions and text, each a non-empty string (the placeholder when the
\* file has none), and the prompt has those three lines for every entry; the
\* entries are rendered in the format they were fetched in: for a user with a
\* name and a role the prompt is abandoned only when the user has no id, never
\* over a key an entry lacks.
C8_EntradasPorRol ==
    (Built /\ usuario.rol.t # "Missing" /\ usuario.nombre.t # "Missing") =>
        /\ prompt.t = "prompt"
        /\ prompt.fallback => usuario.id.t = "Missing"
        /\ (prompt.t = "prompt" /\ ~prompt.fallback) =>
              LET data == prompt.archivos_data
                  etiquetadas ==
                      SelectSeq(prompt.lines, LAMBDA l : l # <<>> /\ l[1] \in EtiquetasAlumno)
              IN  IF usuario.rol = PROFESOR
                  THEN /\ \A i \in 1..Len(data) :
                             DOMAIN data[i] = {"tema", "materia", "nombre_archivo"}
                       /\ etiquetadas = <<>>
                  ELSE /\ \A i \in 1..Len(data) :
                             /\ {"notas", "instrucciones", "texto"} \subseteq DOMAIN data[i]
                             /\ Presente(data[i].notas)
                             /\ Presente(data[i].instrucciones)
                             /\ Presente(data[i].texto)
                             /\ ~Truthy(Listados[i].notas_adicionales) =>
                                    data[i].notas = Lit("Sin notas adicionales")
                             /\ ~Truthy(Listados[i].instrucciones_ensenanza) =>
                                    data[i].instrucciones = Lit("Sin instrucciones especificas")
                             /\ ~Truthy(Listados[i].texto_extraido) =>
                                    data[i].texto = Lit("Texto no disponible")
                       /\ Len(etiquetadas) = 3 * Len(data)

\* A teacher's prompt listing two files that have extracted text and notes.
C8_Witness ==
    /\ Built /\ prompt.t = "prompt" /\ ~prompt.fallback
    /\ usuario.rol = PROFESOR
    /\ Len(prompt.archivos_data) = 2
    /\ \A a \in archivos : Truthy(a.texto_extraido) /\ Truthy(a.notas_adicionales)

\* C9: _calculate_age is 30 for a teacher and 16 for any other role when the
\* user has no birth date; otherwise it is the current year minus the birth
\* year, less one when the birthday's month and day are still to come this
\* year, brought into 0..120.
C9_EdadReferencia ==
    edad.t # "pending" =>
        LET nac == usuario.fecha_nacimiento
            porVenir == hoy.m * 100 + hoy.d < nac.m * 100 + nac.d
            anios == hoy.y - nac.y - (IF porVenir THEN 1 ELSE 0)
        IN  /\ nac.t \in {"None", "Missing"} =>
                  edad = Entero(IF usuario.rol = PROFESOR THEN 30 ELSE 16)
            /\ nac.t = "date" =>
                  edad = Entero(IF anios < 0 THEN 0 ELSE IF anios > 120 THEN 120 ELSE anios)

\* The birthday is today: the year just completed counts.
C9_Witness ==
    /\ edad.t = "int"
    /\ usuario.fecha_nacimiento.t = "date"
    /\ usuario.fecha_nacimiento.m = hoy.m /\ usuario.fecha_nacimiento.d = hoy.d
    /\ edad.v = hoy.y - usuario.fecha_nacimiento.y
    /\ edad.v = 120

====
